---------------------------- MODULE Spec2Model ----------------------------
(***************************************************************************)
(* Shadow reconciliation engine of aws-iot-client-py.                      *)
(*                                                                         *)
(* Threads of the program:                                                 *)
(*   cb   the transport's callback context: connection success, shadow     *)
(*        delta events and get-accepted responses run here, one at a time  *)
(*        (shadow_device_controller.py, handlers registered at 113-139     *)
(*        and 287);                                                        *)
(*   ctl  a request-handling thread of the REST front end calling          *)
(*        update_equipment_state_and_shadow (app.py 164, threaded=True).   *)
(*   the start-up thread of the front end (app.py 206), which creates the  *)
(*        controller and calls start(), and the thread that runs stop()    *)
(*        on a signal (app.py 56-71).                                      *)
(*   the heartbeat thread started by start() (lines 383-384), which reads  *)
(*        the pins and publishes them (lines 294-332).                     *)
(* All reach the GPIO pins through EquipmentController with no lock, so    *)
(* every GPIO.output / GPIO.input is a step of its own.                    *)
(***************************************************************************)
EXTENDS Naturals, Sequences, FiniteSets, TLC

\* ------------------------------------------------------------ data
\* equipment_controller.py 16-19: the two configured kinds.
Kinds == {"blower", "vibrofeeder"}

\* A key outside the configuration.  The code tests membership in
\* ['blower', 'vibrofeeder'] only (shadow_device_controller.py 191, 220), so
\* one such key stands for all of them.
InvalidKeys == {"pump"}

Keys == Kinds \cup InvalidKeys

\* Iteration order of a document's items (dict order of the payload): the
\* configured kinds first, then the other keys.
KeyOrder == <<"blower", "vibrofeeder", "pump">>

\* The value a shadow document holds for a key:
\*   "on" / "off"  {"is_active": true} / {"is_active": false}
\*   "noflag"      an object without is_active
\*   "malformed"   a JSON value that is no object (has no .get)
\*   "absent"      the key is not in the document
EntryValues == {"on", "off", "noflag", "malformed"}

\* A desired-state or delta document: what each key holds.  The value of a
\* key outside the configuration is never inspected by the code.
Documents ==
  {d \in [Keys -> EntryValues \cup {"absent"}] :
      \A k \in InvalidKeys : d[k] \in {"on", "absent"}}

NoDocument == [k \in Keys |-> "absent"]

\* Delta events carry at least one key.
DeltaBatches == Documents \ {NoDocument}

\* The reported section: written by this engine only, so well formed.
ReportedDocs == [Kinds -> {"on", "off", "absent"}]

NoReported == [k \in Kinds |-> "absent"]

NoStates == [k \in {} |-> TRUE]

VARIABLES
  gpio,           \* level of each kind's output pin, "HIGH" (off) or "LOW" (on)
  faulty,         \* kinds whose output cannot be energized (hardware fault)
  client,         \* self.client: "none" until start(), then "started"
  shadow_client,  \* self.shadow_client: FALSE is None
  subscribed,     \* shadow topics with an acknowledged subscription
  cb,             \* the callback context: position and locals of its handler
  ctl,            \* the control-path caller: position and locals
  prev,           \* the last reconciliation completed on cb (SpecSerial only)
  connected,      \* the transport's link to the broker is up
  app,            \* the REST front end: its globals, its start-up thread and
                  \* the shutdown it runs on a signal
  shadow          \* the shadow service's side (SpecShadow only): its document
                  \* and the messages it has sent that wait for delivery

vars ==
  <<gpio, faulty, client, shadow_client, subscribed, cb, ctl, prev, connected, app,
    shadow>>

\* ------------------------------------------------------------ transport
\* A request awaited with no deadline: with the link down nothing resolves it.
OutcomesNoDeadline == IF connected THEN BOOLEAN ELSE {}

\* future.result(timeout=10) (lines 118, 129, 140, 175, 264): the request is
\* acknowledged (TRUE), or the call raises on an error or at the deadline
\* (FALSE).  With the link down no acknowledgment arrives and the deadline
\* ends the wait.
Outcomes == IF connected THEN BOOLEAN ELSE {FALSE}

\* ------------------------------------------------------------ hardware
\* equipment_controller.py 56: active-low relays, LOW = ON, HIGH = OFF.
GpioLevel(is_active) == IF is_active THEN "LOW" ELSE "HIGH"

\* A relay input that is pulsed to change over: the write flips the pin
\* whatever the requested level.
GpioOutputToggles(g, k, level) ==
  [g EXCEPT ![k] = IF g[k] = "LOW" THEN "HIGH" ELSE "LOW"]

\* The outputs written as one bank: every pin takes the requested level.
GpioOutputBank(g, k, level) == [j \in DOMAIN g |-> level]

\* GPIO.output(pin, gpio_value) (equipment_controller.py 57).  A faulty
\* output cannot be energized: driving it LOW leaves the pin HIGH.
GpioOutput(g, k, level) ==
  IF level = "LOW" /\ k \in faulty THEN g ELSE [g EXCEPT ![k] = level]

\* get_state (equipment_controller.py 84-87): GPIO.input(pin) == GPIO.LOW.
get_state(g, k) == g[k] = "LOW"

\* The pins left as they are when the controller is cleaned up.
GpioCleanupKeeps(g) == g

\* GPIO.cleanup() (equipment_controller.py 141): every pin the program set
\* up is returned to an input, "IN", and is no longer driven.
GpioCleanup(g) == [k \in DOMAIN g |-> "IN"]

\* GPIO.output and GPIO.input (equipment_controller.py 57, 84) raise
\* RuntimeError for a pin that is not set up as an output.
GpioRaises(g, k) == k \in DOMAIN g /\ g[k] = "IN"

\* get_all_states (equipment_controller.py 102-104): get_state of every
\* configured kind.
get_all_states(g) == [k \in Kinds |-> get_state(g, k)]

\* Every relay energized at set-up.
SetupGpioEnergized == [k \in Kinds |-> "LOW"]

\* _setup_gpio (equipment_controller.py 32-36): every pin is set up as an
\* output and driven HIGH, which is off for the active-low relays.
SetupGpio == [k \in Kinds |-> "HIGH"]

\* Every identifier taken for a configured kind.
UnknownKindNever(k) == FALSE

\* set_state and get_state (equipment_controller.py 50-51, 78-79) raise
\* ValueError for an identifier outside equipment_config.
UnknownKind(k) == k \notin Kinds

\* ------------------------------------------------------------ documents
\* desired_state.get('is_active', False) (shadow_device_controller.py 221).
DesiredActive(v) == v = "on"

\* x.get('is_active') as compared at line 193: True, False or None.
IsActiveOf(v) ==
  IF v = "on" THEN "True" ELSE IF v = "off" THEN "False" ELSE "None"

\* The comparison made only for a kind the reported section holds.
DiffersWhenReported(desired_state, current_state) ==
  /\ current_state # "absent"
  /\ IsActiveOf(desired_state) # IsActiveOf(current_state)

\* Line 193: desired_state.get('is_active') != current_state.get('is_active'),
\* where current_state is {} for a kind the reported section lacks (line 192).
Differs(desired_state, current_state) ==
  IsActiveOf(desired_state) # IsActiveOf(current_state)

\* Index in KeyOrder of the first key from position i on that the document
\* holds; 0 when there is none (the for loop over .items() is over).
NextItem(d, i) ==
  LET S == {n \in i..Len(KeyOrder) : d[KeyOrder[n]] # "absent"}
  IN  IF S = {} THEN 0 ELSE CHOOSE n \in S : \A m \in S : n <= m

\* A document holding one entry.
SingleKey(k, v) == [NoDocument EXCEPT ![k] = v]

\* The whole desired section handed on instead of the one differing entry.
WholeDesired(desired, k, v) == desired

\* Line 195: the argument of _process_shadow_delta is the one-key document
\* {equipment_type: desired_state}.
ImplicitDelta(desired, k, v) == SingleKey(k, v)

\* The requested value stored instead of the read-back.
ReportedValueEchoes(desired_active, verified_state) == desired_active

\* Line 231: the value stored for the kind is the second read-back.
ReportedValue(desired_active, verified_state) == verified_state

\* The publish made unconditionally.
PublishAlways(updated_states) == TRUE

\* Line 239: if updated_states.
PublishNeeded(updated_states) == DOMAIN updated_states # {}

\* Line 351: states = {equipment_type: {'is_active': actual_state}}.
ControlStates(equipment_type, is_active, actual_state) ==
  equipment_type :> actual_state

\* The request echoed to the caller.
ControlResultEchoes(is_active, actual_state) == is_active

\* Line 354: return actual_state.
ControlResult(is_active, actual_state) == actual_state

\* The body of a POST /equipment/control request as control_equipment sees
\* it (app.py 135-152):
\*   json            "object": get_json() returns a JSON object; "null": it
\*                   returns None; "invalid": it raises (the body cannot be
\*                   read as JSON)
\*   equipment_type  the value of that field, or "absent"
\*   is_active       "true", "false", or "absent"
Bodies ==
  {b \in [json : {"object", "null", "invalid"},
          equipment_type : Keys \cup {"absent"},
          is_active : {"true", "false", "absent"}] :
     b.json # "object" => (b.equipment_type = "absent" /\ b.is_active = "absent")}

NoBody == [json |-> "null", equipment_type |-> "absent", is_active |-> "absent"]

\* The field is_active taken as present and false when the body lacks it.
ControlValidationNoFlagCheck(body) ==
  IF body.json = "invalid" THEN "500"
  ELSE IF body.json = "null" \/ body.equipment_type = "absent" THEN "400"
  ELSE IF body.equipment_type \notin Kinds THEN "400"
  ELSE "ok"

\* control_equipment, app.py 135-159 and 179-185: the status the request is
\* answered with before anything is called, or "ok".  get_json() raising is
\* caught at line 179 (500); no data, that is None or an empty object (line
\* 136), a missing field (line 144) and an equipment_type outside the list
\* (line 154) are answered 400.
ControlValidation(body) ==
  IF body.json = "invalid" THEN "500"
  ELSE IF body.json = "null"
          \/ (body.equipment_type = "absent" /\ body.is_active = "absent") THEN "400"
  ELSE IF body.equipment_type = "absent" \/ body.is_active = "absent" THEN "400"
  ELSE IF body.equipment_type \notin Kinds THEN "400"
  ELSE "ok"

\* ------------------------------------------------------------ initial state
\* The callback context with no handler running.
CbIdle ==
  [pc |-> "idle",
   \* _process_shadow_delta
   caller |-> "none", delta_state |-> NoDocument, i |-> 0,
   desired_active |-> FALSE, updated_states |-> NoStates,
   \*   what this invocation has done so far: the kinds it called GPIO.output
   \*   for, the last GPIO.input it got for each, the kinds whose second
   \*   read-back differed from the desired value, the publish requests it
   \*   issued, and whether the except of line 242 was taken
   written |-> {}, readback |-> NoStates, mismatch |-> {},
   requests |-> <<>>, raised |-> FALSE,
   \* _on_get_shadow_accepted
   desired |-> NoDocument, doc_reported |-> NoReported, j |-> 0,
   \*   the kinds handed to _process_shadow_delta, what each of these calls
   \*   did, and whether the except of line 197 was taken
   triggered |-> {}, cycles |-> <<>>, ga_raised |-> FALSE,
   \* _sync_shadow_with_hardware
   current_states |-> NoStates]

CtlIdle ==
  [pc |-> "idle", equipment_type |-> "blower", is_active |-> FALSE,
   actual_state |-> FALSE, readback |-> NoStates, publish |-> "none",
   states |-> NoStates, result |-> FALSE, error |-> "none",
   \* the REST request being served: its body and the answer given
   body |-> NoBody, answer |-> "none"]

\* app.py 25-26: shadow_controller = None, startup_complete = False; the
\* start-up thread (app.py 206) has not run and no signal has arrived.
\*   init  position of initialize_shadow_controller
\*   stop  position of stop() called from cleanup_on_exit
\*   i     the kind cleanup() has reached (index in KindOrder)
\*   hb    position of the heartbeat thread in _publish_heartbeat, hb_i the
\*         kind its get_all_states has reached, hb_states what it has read,
\*         beat the outcome of its last heartbeat
AppInit ==
  [init |-> "none", shadow_controller |-> FALSE, startup_complete |-> FALSE,
   is_running |-> FALSE, stop |-> "none", i |-> 0,
   hb |-> "idle", hb_i |-> 0, hb_states |-> NoStates, beat |-> "none"]

\* The service's side before anything was sent to it: an empty document,
\* no message waiting.
\*   desired, reported  the two sections of the shadow document
\*   inbox     the delta and get-accepted messages sent to the device and
\*             not yet delivered, in order
\*   offline, online  the kinds whose desired entry was changed before the
\*             connection, and since
\*   called    a control call has been made
\*   lost      a request of the device was not acknowledged
NoShadow ==
  [desired |-> NoReported, reported |-> NoReported, inbox |-> <<>>,
   offline |-> {}, online |-> {}, called |-> FALSE, lost |-> FALSE]

NoPrev ==
  [path |-> "none", kind |-> "none", value |-> "absent", states |-> <<>>,
   level |-> "HIGH"]

\* equipment_controller.py 32-36: every pin is set up as an output and
\* driven HIGH (off); shadow_device_controller.py 42-48: no client yet.
Init ==
  /\ gpio = SetupGpio
  /\ faulty \in SUBSET Kinds
  /\ client = "none"
  /\ shadow_client = FALSE
  /\ subscribed = {}
  /\ cb = CbIdle
  /\ ctl = CtlIdle
  /\ prev = NoPrev
  /\ connected = FALSE
  /\ app = AppInit
  /\ shadow = NoShadow

\* ------------------------------------------------------------ shadow service
\* The other end of the requests of lines 109-140, 156-175 and 260: the
\* Device Shadow service keeps the document, answers a get request on
\* get/accepted and, when an accepted update leaves desired entries that
\* differ from the reported ones, sends these entries on update/delta.
\* The value a reported entry holds for a state read from the hardware.
ReportedEntry(is_active) == IF is_active THEN "on" ELSE "off"

\* A section over the configured kinds as a document over all keys.
AsDocument(section) ==
  [k \in Keys |-> IF k \in Kinds THEN section[k] ELSE "absent"]

\* The desired entries that differ from the reported ones.
ShadowDelta(sh) ==
  [k \in Keys |->
     IF k \in Kinds /\ sh.desired[k] # "absent" /\ sh.desired[k] # sh.reported[k]
     THEN sh.desired[k] ELSE "absent"]

\* A delta message is sent to a device subscribed to update/delta (line 109)
\* when the document has such entries.
SendDelta(sh) ==
  IF "delta" \in subscribed /\ ShadowDelta(sh) # NoDocument
  THEN [sh EXCEPT !.inbox = Append(@, [type |-> "delta", state |-> ShadowDelta(sh),
                                       reported |-> NoReported])]
  ELSE sh

\* publish_update_shadow (line 260) with request.state.reported = states:
\* acknowledged, the service has merged the states into the reported section;
\* otherwise the request counts as lost.
UpdateReported(sh, states, acked) ==
  IF acked
  THEN SendDelta([sh EXCEPT !.reported =
                    [k \in Kinds |-> IF k \in DOMAIN states
                                     THEN ReportedEntry(states[k]) ELSE @[k]]])
  ELSE [sh EXCEPT !.lost = TRUE]

\* publish_get_shadow (lines 170-175): acknowledged, the service sends the
\* document to a device subscribed to get/accepted (line 121).
GetDocument(sh, acked) ==
  IF ~acked THEN [sh EXCEPT !.lost = TRUE]
  ELSE IF "get_accepted" \in subscribed
  THEN [sh EXCEPT !.inbox = Append(@, [type |-> "get", state |-> AsDocument(sh.desired),
                                       reported |-> sh.reported])]
  ELSE sh

\* An application changes the desired entry of a kind: to on, to off, or
\* removes it.  Each kind is changed at most once before the connection and
\* at most once after it, so the desired section stops changing.
DesiredChange(k, v) ==
  /\ v # shadow.desired[k]
  /\ k \notin (IF connected THEN shadow.online ELSE shadow.offline)
  /\ shadow' = SendDelta([shadow EXCEPT
                            !.desired[k] = v,
                            !.online = IF connected THEN @ \cup {k} ELSE @,
                            !.offline = IF connected THEN @ ELSE @ \cup {k}])
  /\ UNCHANGED <<gpio, faulty, client, shadow_client, subscribed, cb, ctl, prev, connected, app>>

\* ------------------------------------------------------------ start, connect
\* The link to the broker is lost.  _on_disconnection (lines 86-88) only
\* logs: no field of the engine changes.
Disconnection ==
  /\ connected
  /\ connected' = FALSE
  /\ UNCHANGED <<gpio, faulty, client, shadow_client, subscribed, cb, ctl, prev, app, shadow>>

\* start(), lines 374-375: the MQTT client is created and started.
Start ==
  /\ client = "none"
  /\ client' = "started"
  /\ UNCHANGED <<gpio, faulty, shadow_client, subscribed, cb, ctl, prev, connected, app, shadow>>

\* _on_connection_success and the head of _initialize_shadow_client
\* (lines 75-96): a new shadow client, then the subscriptions.  The event is
\* delivered on the callback context, so only when no handler is running.
ConnectionSuccess ==
  /\ client = "started"
  /\ cb.pc = "idle"
  /\ shadow_client' = TRUE
  /\ subscribed' = {}
  /\ cb' = [cb EXCEPT !.pc = "sub_delta"]
  /\ prev' = NoPrev
  /\ connected' = TRUE
  /\ UNCHANGED <<gpio, faulty, client, ctl, app, shadow>>

\* One subscribe request of _subscribe_to_shadow_topics and its
\* future.result(timeout=10).  Acknowledged: the next request follows.  An
\* error or a timeout raises, and the except at line 144 ends the function:
\* the requests that follow are not issued, and line 99 runs next.  After a
\* timeout the subscription may still have been established.
\* A failed subscribe request ending the connection handler.
SubscribeFailureFatal == "idle"

\* Where the handler goes on after a subscribe request has raised: the except
\* at line 144 logs, _subscribe_to_shadow_topics returns and line 99 calls
\* _sync_shadow_with_hardware.
AfterSubscribeFailure == "sync_read"

Subscribe(at, topic, next) ==
  /\ cb.pc = at
  /\ \E acked \in Outcomes, established \in BOOLEAN :
       /\ acked => established
       /\ subscribed' = IF established THEN subscribed \cup {topic} ELSE subscribed
       /\ cb' = [cb EXCEPT !.pc = IF acked THEN next ELSE AfterSubscribeFailure,
                            !.i = 1]
  /\ UNCHANGED <<gpio, faulty, client, shadow_client, ctl, prev, connected, app, shadow>>

\* Lines 109-118.
SubscribeDelta == Subscribe("sub_delta", "delta", "sub_get")

\* Lines 121-129.
SubscribeGetAccepted == Subscribe("sub_get", "get_accepted", "sub_update")

\* Lines 132-140.
SubscribeUpdateAccepted == Subscribe("sub_update", "update_accepted", "sync_read")

\* The kinds in the order get_all_states reads them (equipment_config order).
KindOrder == <<"blower", "vibrofeeder">>

\* get_all_states (equipment_controller.py 102-104) called at line 151:
\* one GPIO.input per kind.  An exception of the read is caught at line 161
\* and the handler returns with nothing published or requested.
SyncRead ==
  /\ cb.pc = "sync_read"
  /\ LET k == KindOrder[cb.i]
     IN  IF GpioRaises(gpio, k)
         THEN cb' = CbIdle
         ELSE cb' = [cb EXCEPT
                  !.current_states = (k :> get_state(gpio, k)) @@ @,
                  !.i = IF cb.i = Len(KindOrder) THEN 0 ELSE cb.i + 1,
                  !.pc = IF cb.i = Len(KindOrder) THEN "sync_publish" ELSE "sync_read"]
  /\ UNCHANGED <<gpio, faulty, client, shadow_client, subscribed, ctl, prev, connected, app, shadow>>

\* Line 156: _update_shadow_reported_state(current_states); the request is
\* acknowledged or fails (error, timeout), and either way line 159 follows.
\* The document requested only after an acknowledged publish.
GetOnlyWhenPublished(acked) == IF acked THEN "get_doc" ELSE "idle"

\* _update_shadow_reported_state catches every exception (line 266), so
\* line 159 follows line 156 whatever the outcome of the publish.
AfterStartupPublish(acked) == "get_doc"

\* observe: whether the service's side of the request is followed in shadow.
SyncPublishTo(observe) ==
  /\ cb.pc = "sync_publish"
  /\ \E acked \in Outcomes :
       /\ cb' = [cb EXCEPT
                   !.requests = Append(@, [states |-> cb.current_states, acked |-> acked]),
                   !.pc = AfterStartupPublish(acked)]
       /\ shadow' = IF observe THEN UpdateReported(shadow, cb.current_states, acked)
                     ELSE shadow
  /\ UNCHANGED <<gpio, faulty, client, shadow_client, subscribed, ctl, prev, connected, app>>

SyncPublish == SyncPublishTo(FALSE)

SyncPublishSent == SyncPublishTo(TRUE)

\* _get_shadow_document (lines 164-178): the get request is published and
\* awaited; acknowledged or not, the handler then returns (lines 101-103).
\* The response arrives as a get-accepted event.
GetShadowDocumentTo(observe) ==
  /\ cb.pc = "get_doc"
  /\ \E acked \in Outcomes :
       /\ cb' = CbIdle
       /\ shadow' = IF observe THEN GetDocument(shadow, acked) ELSE shadow
  /\ UNCHANGED <<gpio, faulty, client, shadow_client, subscribed, ctl, prev, connected, app>>

GetShadowDocument == GetShadowDocumentTo(FALSE)

GetShadowDocumentSent == GetShadowDocumentTo(TRUE)

\* ------------------------------------------------------------ delta reconciler
\* _on_shadow_delta_updated (lines 200-204): a delta event is delivered to
\* the callback registered at line 116.
\* observe: whether the event is the first message waiting in shadow.inbox.
ShadowDeltaUpdatedFrom(b, observe) ==
  /\ cb.pc = "idle"
  /\ "delta" \in subscribed
  /\ cb' = [CbIdle EXCEPT !.pc = "pd_loop", !.caller = "delta",
                          !.delta_state = b, !.i = NextItem(b, 1)]
  /\ shadow' = IF observe THEN [shadow EXCEPT !.inbox = Tail(@)] ELSE shadow
  /\ UNCHANGED <<gpio, faulty, client, shadow_client, subscribed, ctl, prev, connected, app>>

ShadowDeltaUpdated(b) == ShadowDeltaUpdatedFrom(b, FALSE)

\* The delta message at the head of the inbox is delivered.
DeltaDelivered ==
  /\ shadow.inbox # <<>>
  /\ Head(shadow.inbox).type = "delta"
  /\ ShadowDeltaUpdatedFrom(Head(shadow.inbox).state, TRUE)

\* Where _process_shadow_delta goes after the item at position i.
AfterItem(d, i) == IF NextItem(d, i + 1) = 0 THEN "pd_publish" ELSE "pd_loop"

\* One turn of the loop of lines 219-226, up to GPIO.output inside set_state
\* (equipment_controller.py 50-57).  A key outside the list is skipped; a
\* value with no .get raises at line 221, and so does GPIO.output on a pin
\* that is not set up; the except at line 242 catches both: the function
\* ends without publishing.
ProcessItem ==
  /\ cb.pc = "pd_loop"
  /\ LET k == KeyOrder[cb.i]
         v == cb.delta_state[k]
     IN  IF k \notin Kinds
         THEN /\ cb' = [cb EXCEPT !.i = NextItem(cb.delta_state, cb.i + 1),
                                  !.pc = AfterItem(cb.delta_state, cb.i)]
              /\ gpio' = gpio
         ELSE IF v = "malformed" \/ GpioRaises(gpio, k)
         THEN /\ cb' = [cb EXCEPT !.raised = TRUE, !.pc = "pd_ret"]
              /\ gpio' = gpio
         ELSE /\ gpio' = GpioOutput(gpio, k, GpioLevel(DesiredActive(v)))
              /\ cb' = [cb EXCEPT !.desired_active = DesiredActive(v),
                                  !.written = @ \cup {k},
                                  !.pc = "pd_input"]
  /\ UNCHANGED <<faulty, client, shadow_client, subscribed, ctl, prev, connected, app, shadow>>

\* The read-back inside set_state (equipment_controller.py 60), whose result
\* line 226 assigns to actual_state and never uses.
ProcessSetRead ==
  /\ cb.pc = "pd_input"
  /\ LET k == KeyOrder[cb.i]
     IN  IF GpioRaises(gpio, k)
         THEN cb' = [cb EXCEPT !.raised = TRUE, !.pc = "pd_ret"]
         ELSE cb' = [cb EXCEPT !.readback = (k :> get_state(gpio, k)) @@ @,
                               !.pc = "pd_verify"]
  /\ UNCHANGED <<gpio, faulty, client, shadow_client, subscribed, ctl, prev, connected, app, shadow>>

\* Lines 229-236: the second read-back, stored for the kind whether or not it
\* equals the desired value.
ProcessVerify ==
  /\ cb.pc = "pd_verify"
  /\ LET k == KeyOrder[cb.i]
         verified_state == get_state(gpio, k)
     IN  IF GpioRaises(gpio, k)
         THEN cb' = [cb EXCEPT !.raised = TRUE, !.pc = "pd_ret"]
         ELSE
         cb' = [cb EXCEPT
                  !.readback = (k :> verified_state) @@ @,
                  !.updated_states =
                     (k :> ReportedValue(cb.desired_active, verified_state)) @@ @,
                  !.mismatch = IF verified_state = cb.desired_active
                               THEN @ ELSE @ \cup {k},
                  !.i = NextItem(cb.delta_state, cb.i + 1),
                  !.pc = AfterItem(cb.delta_state, cb.i)]
  /\ UNCHANGED <<gpio, faulty, client, shadow_client, subscribed, ctl, prev, connected, app, shadow>>

\* Lines 238-240 with _update_shadow_reported_state (lines 252-267): one
\* request when updated_states is not empty, acknowledged or failed; a
\* failure is logged and nothing is retried.
ProcessPublishTo(observe) ==
  /\ cb.pc = "pd_publish"
  /\ IF PublishNeeded(cb.updated_states)
     THEN \E acked \in Outcomes :
            /\ cb' = [cb EXCEPT
                        !.requests = Append(@, [states |-> cb.updated_states,
                                                acked |-> acked]),
                        !.pc = "pd_ret"]
            /\ shadow' = IF observe
                          THEN UpdateReported(shadow, cb.updated_states, acked)
                          ELSE shadow
     ELSE /\ cb' = [cb EXCEPT !.pc = "pd_ret"]
          /\ shadow' = shadow
  /\ UNCHANGED <<gpio, faulty, client, shadow_client, subscribed, ctl, prev, connected, app>>

ProcessPublish == ProcessPublishTo(FALSE)

ProcessPublishSent == ProcessPublishTo(TRUE)

\* What a finished invocation of _process_shadow_delta for a one-key delta
\* leaves behind: its path, kind and desired value, the payloads it
\* published and the level of the kind's pin.
Summary ==
  LET k == KeyOrder[NextItem(cb.delta_state, 1)]
  IN  [path |-> cb.caller, kind |-> k, value |-> cb.delta_state[k],
       states |-> [n \in 1..Len(cb.requests) |-> cb.requests[n].states],
       level |-> IF k \in Kinds THEN gpio[k] ELSE "HIGH"]

\* _process_shadow_delta returns: to _on_shadow_delta_updated (line 204),
\* which ends, or into the loop of _on_get_shadow_accepted (line 195).
\* observe: whether the invocation is remembered in prev.
Return(observe) ==
  /\ cb.pc = "pd_ret"
  /\ cb' = IF cb.caller = "get"
           THEN [CbIdle EXCEPT !.pc = "ga_loop", !.desired = cb.desired,
                               !.doc_reported = cb.doc_reported, !.j = cb.j,
                               !.triggered = cb.triggered,
                               !.cycles = Append(cb.cycles,
                                   [written |-> cb.written,
                                    readback |-> cb.readback,
                                    requests |-> cb.requests])]
           ELSE CbIdle
  /\ prev' = IF observe THEN Summary ELSE prev
  /\ UNCHANGED <<gpio, faulty, client, shadow_client, subscribed, ctl, connected, app, shadow>>

ProcessReturn == Return(FALSE)

ProcessReturnObserved == Return(TRUE)

\* ------------------------------------------------------------ full document
\* _on_get_shadow_accepted (lines 180-187): a get-accepted response is
\* delivered to the callback registered at line 127.  des is the desired
\* section (NoDocument: none, line 186), rep the reported section (line 187).
GetShadowAcceptedFrom(des, rep, observe) ==
  /\ cb.pc = "idle"
  /\ "get_accepted" \in subscribed
  /\ cb' = [CbIdle EXCEPT !.pc = "ga_loop", !.desired = des,
                          !.doc_reported = rep, !.j = NextItem(des, 1)]
  /\ shadow' = IF observe THEN [shadow EXCEPT !.inbox = Tail(@)] ELSE shadow
  /\ UNCHANGED <<gpio, faulty, client, shadow_client, subscribed, ctl, prev, connected, app>>

GetShadowAccepted(des, rep) == GetShadowAcceptedFrom(des, rep, FALSE)

\* The get-accepted message at the head of the inbox is delivered.
GetAcceptedDelivered ==
  /\ shadow.inbox # <<>>
  /\ Head(shadow.inbox).type = "get"
  /\ GetShadowAcceptedFrom(Head(shadow.inbox).state, Head(shadow.inbox).reported, TRUE)

\* One turn of the loop of lines 190-195, or its end.  A value with no .get
\* raises at line 193 and the except at line 197 ends the handler.
GetAcceptedItem ==
  /\ cb.pc = "ga_loop"
  /\ LET k == IF cb.j = 0 THEN "none" ELSE KeyOrder[cb.j]
         v == IF cb.j = 0 THEN "absent" ELSE cb.desired[k]
         n == NextItem(cb.desired, cb.j + 1)
     IN  IF cb.j = 0
         THEN cb' = [cb EXCEPT !.pc = "ga_ret"]
         ELSE IF k \notin Kinds
         THEN cb' = [cb EXCEPT !.j = n]
         ELSE IF v = "malformed"
         THEN cb' = [cb EXCEPT !.ga_raised = TRUE, !.pc = "ga_ret"]
         ELSE IF Differs(v, cb.doc_reported[k])
         THEN cb' = [cb EXCEPT !.triggered = @ \cup {k}, !.j = n,
                               !.pc = "pd_loop", !.caller = "get",
                               !.delta_state = ImplicitDelta(cb.desired, k, v),
                               !.i = NextItem(ImplicitDelta(cb.desired, k, v), 1)]
         ELSE cb' = [cb EXCEPT !.j = n]
  /\ UNCHANGED <<gpio, faulty, client, shadow_client, subscribed, ctl, prev, connected, app, shadow>>

\* _on_get_shadow_accepted returns.
GetAcceptedReturn ==
  /\ cb.pc = "ga_ret"
  /\ cb' = CbIdle
  /\ UNCHANGED <<gpio, faulty, client, shadow_client, subscribed, ctl, prev, connected, app, shadow>>

\* ------------------------------------------------------------ control path
\* The positions at which the request thread has no call in progress: before
\* its first request, after a return (line 354), after a 503 or a 400
\* (app.py 129-159), after an exception left the call (line 358) and after a
\* status or health request was answered (app.py 85, 107).
CtlDone == {"idle", "returned", "rejected", "raised", "answered"}

\* update_equipment_state_and_shadow(equipment_type, is_active) is called
\* (app.py 164, after the checks of app.py 128-159).
ControlCallBy(k, d, observe) ==
  /\ ctl.pc \in CtlDone
  /\ ctl' = [CtlIdle EXCEPT !.pc = "set_output", !.equipment_type = k, !.is_active = d]
  /\ shadow' = IF observe THEN [shadow EXCEPT !.called = TRUE] ELSE shadow
  /\ UNCHANGED <<gpio, faulty, client, shadow_client, subscribed, cb, prev, connected, app>>

ControlCall(k, d) == ControlCallBy(k, d, FALSE)

\* The one control call followed in shadow.
ControlCallOnce(k, d) ==
  /\ ~shadow.called
  /\ ControlCallBy(k, d, TRUE)

\* Line 348, set_state up to GPIO.output (equipment_controller.py 50-57).
\* The ValueError of line 51 and an error of GPIO.output leave the try for
\* the except of line 356.
ControlSetOutput ==
  /\ ctl.pc = "set_output"
  /\ IF UnknownKind(ctl.equipment_type)
     THEN /\ ctl' = [ctl EXCEPT !.pc = "except", !.error = "ValueError"]
          /\ gpio' = gpio
     ELSE IF GpioRaises(gpio, ctl.equipment_type)
     THEN /\ ctl' = [ctl EXCEPT !.pc = "except", !.error = "RuntimeError"]
          /\ gpio' = gpio
     ELSE /\ gpio' = GpioOutput(gpio, ctl.equipment_type, GpioLevel(ctl.is_active))
          /\ ctl' = [ctl EXCEPT !.pc = "set_input"]
  /\ UNCHANGED <<faulty, client, shadow_client, subscribed, cb, prev, connected, app, shadow>>

\* The read-back of set_state (equipment_controller.py 60-65), returned to
\* line 348 as actual_state.
ControlSetRead ==
  /\ ctl.pc = "set_input"
  /\ LET a == get_state(gpio, ctl.equipment_type)
     IN  IF GpioRaises(gpio, ctl.equipment_type)
         THEN ctl' = [ctl EXCEPT !.pc = "except", !.error = "RuntimeError"]
         ELSE ctl' = [ctl EXCEPT !.actual_state = a,
                                 !.readback = ctl.equipment_type :> a,
                                 !.pc = "publish"]
  /\ UNCHANGED <<gpio, faulty, client, shadow_client, subscribed, cb, prev, connected, app, shadow>>

\* Lines 351-352 with _update_shadow_reported_state (lines 252-267).  With no
\* shadow client the attribute access of line 260 raises inside the try and
\* is logged; otherwise the request is acknowledged or fails.  Nothing is
\* raised to line 352.
ControlPublishTo(observe) ==
  /\ ctl.pc = "publish"
  /\ LET states == ControlStates(ctl.equipment_type, ctl.is_active, ctl.actual_state)
     IN  IF shadow_client
         THEN \E acked \in Outcomes :
                /\ ctl' = [ctl EXCEPT !.states = states, !.pc = "return",
                             !.publish = IF acked THEN "acked" ELSE "failed"]
                /\ shadow' = IF observe THEN UpdateReported(shadow, states, acked)
                              ELSE shadow
         ELSE /\ ctl' = [ctl EXCEPT !.publish = "no_client", !.pc = "return"]
              /\ shadow' = IF observe THEN [shadow EXCEPT !.lost = TRUE] ELSE shadow
  /\ UNCHANGED <<gpio, faulty, client, shadow_client, subscribed, cb, prev, connected, app>>

ControlPublish == ControlPublishTo(FALSE)

ControlPublishSent == ControlPublishTo(TRUE)

\* The write undone when the publish has failed: the output is driven off
\* again before the call returns.
ControlReturnRollsBack ==
  /\ ctl.pc = "return"
  /\ ctl' = [ctl EXCEPT !.result = ControlResult(ctl.is_active, ctl.actual_state),
                        !.pc = "returned"]
  /\ gpio' = IF ctl.publish = "failed"
             THEN GpioOutput(gpio, ctl.equipment_type, GpioLevel(FALSE))
             ELSE gpio
  /\ UNCHANGED <<faulty, client, shadow_client, subscribed, cb, prev, connected, app, shadow>>

\* Line 354.
ControlReturn ==
  /\ ctl.pc = "return"
  /\ ctl' = [ctl EXCEPT !.result = ControlResult(ctl.is_active, ctl.actual_state),
                        !.pc = "returned"]
  /\ UNCHANGED <<gpio, faulty, client, shadow_client, subscribed, cb, prev, connected, app, shadow>>

\* Lines 356-358: the except logs and returns get_state(equipment_type),
\* which raises again for an unknown identifier or a pin that is not set up:
\* that exception leaves update_equipment_state_and_shadow.
ControlExcept ==
  /\ ctl.pc = "except"
  /\ IF UnknownKind(ctl.equipment_type)
     THEN ctl' = [ctl EXCEPT !.pc = "raised", !.error = "ValueError"]
     ELSE IF GpioRaises(gpio, ctl.equipment_type)
     THEN ctl' = [ctl EXCEPT !.pc = "raised", !.error = "RuntimeError"]
     ELSE ctl' = [ctl EXCEPT !.pc = "returned", !.error = "none",
                             !.result = get_state(gpio, ctl.equipment_type)]
  /\ UNCHANGED <<gpio, faulty, client, shadow_client, subscribed, cb, prev, connected, app, shadow>>

\* ------------------------------------------------------------ shutdown
\* stop(), line 398 (called from cleanup_on_exit, app.py 62-63, or from
\* main, line 437): is_running is cleared.  Nothing waits for a handler or a
\* control call in progress.
StopBegin ==
  /\ app.stop = "none"
  /\ app' = [app EXCEPT !.stop = "client", !.is_running = FALSE]
  /\ UNCHANGED <<gpio, faulty, client, shadow_client, subscribed, cb, ctl, prev, connected, shadow>>

\* Lines 400-404: the heartbeat thread is joined and the client, if there is
\* one, is told to stop; no further connection is made.
StopClient ==
  /\ app.stop = "client"
  /\ client' = IF client = "none" THEN "none" ELSE "stopped"
  /\ app' = [app EXCEPT !.stop = "cleanup_output", !.i = 1]
  /\ UNCHANGED <<gpio, faulty, shadow_client, subscribed, cb, ctl, prev, connected, shadow>>

\* cleanup() (equipment_controller.py 139-140): set_state(kind, False) up to
\* GPIO.output.
CleanupOutput ==
  /\ app.stop = "cleanup_output"
  /\ gpio' = GpioOutput(gpio, KindOrder[app.i], GpioLevel(FALSE))
  /\ app' = [app EXCEPT !.stop = "cleanup_input"]
  /\ UNCHANGED <<faulty, client, shadow_client, subscribed, cb, ctl, prev, connected, shadow>>

\* The read-back of that set_state (equipment_controller.py 60-65), then the
\* next kind.
CleanupRead ==
  /\ app.stop = "cleanup_input"
  /\ app' = [app EXCEPT
               !.stop = IF app.i = Len(KindOrder) THEN "gpio_cleanup" ELSE "cleanup_output",
               !.i = IF app.i = Len(KindOrder) THEN 0 ELSE app.i + 1]
  /\ UNCHANGED <<gpio, faulty, client, shadow_client, subscribed, cb, ctl, prev, connected, shadow>>

\* equipment_controller.py 141 and line 410: GPIO.cleanup(), and stop()
\* returns.
StopReturn ==
  /\ app.stop = "gpio_cleanup"
  /\ gpio' = GpioCleanup(gpio)
  /\ app' = [app EXCEPT !.stop = "done"]
  /\ UNCHANGED <<faulty, client, shadow_client, subscribed, cb, ctl, prev, connected, shadow>>

\* ------------------------------------------------------------ front end
\* initialize_shadow_controller, app.py 36-42: the EquipmentController is
\* constructed (its _setup_gpio drives every pin HIGH), then the
\* ShadowDeviceController, and the global shadow_controller is assigned.
CreateController ==
  /\ app.init = "none"
  /\ gpio' = SetupGpio
  /\ app' = [app EXCEPT !.init = "created", !.shadow_controller = TRUE]
  /\ UNCHANGED <<faulty, client, shadow_client, subscribed, cb, ctl, prev, connected, shadow>>

\* app.py 45: shadow_controller.start() is called on the new controller.
AppStart ==
  /\ app.init = "created"
  /\ Start

\* start() fails before the client runs (lines 374-375 raise, 390-392):
\* it returns False and startup_complete stays False (app.py 50-51).
StartFails ==
  /\ app.init = "created"
  /\ client = "none"
  /\ app' = [app EXCEPT !.init = "failed"]
  /\ UNCHANGED <<gpio, faulty, client, shadow_client, subscribed, cb, ctl, prev, connected, shadow>>

\* The rest of start() (lines 379-388) and app.py 47-49: after the sleep of
\* five seconds is_running is set, the heartbeat thread is started, start()
\* returns True and startup_complete is set.  Nothing is read from the
\* connection.
StartReturn ==
  /\ app.init = "created"
  /\ client = "started"
  /\ app' = [app EXCEPT !.init = "done", !.is_running = TRUE,
                        !.startup_complete = TRUE]
  /\ UNCHANGED <<gpio, faulty, client, shadow_client, subscribed, cb, ctl, prev, connected, shadow>>

\* health_check, app.py 83: the status shown to callers.
HealthStatus ==
  IF app.startup_complete /\ app.shadow_controller THEN "healthy" ELSE "initializing"

\* control_equipment, app.py 128-133: with no shadow controller the request
\* is answered 503 and nothing else is done.
ControlReject ==
  /\ ctl.pc \in CtlDone
  /\ ~app.shadow_controller
  /\ ctl' = [CtlIdle EXCEPT !.pc = "rejected"]
  /\ UNCHANGED <<gpio, faulty, client, shadow_client, subscribed, cb, prev, connected, app, shadow>>

\* control_equipment, app.py 128-167: the only readiness test is that the
\* global shadow_controller is set; a request for a valid kind then calls
\* update_equipment_state_and_shadow.
ControlRequest(k, d) ==
  /\ app.shadow_controller
  /\ ControlCall(k, d)

\* control_equipment, app.py 124-167 and 179-185, up to the call of
\* update_equipment_state_and_shadow: 503 with no shadow controller, the
\* answer of the validation for a body it does not accept, and otherwise the
\* call with equipment_type and bool(is_active).
ControlEquipment(body) ==
  /\ ctl.pc \in CtlDone
  /\ IF ~app.shadow_controller
     THEN ctl' = [CtlIdle EXCEPT !.pc = "rejected", !.answer = "503", !.body = body]
     ELSE IF ControlValidation(body) # "ok"
     THEN ctl' = [CtlIdle EXCEPT !.pc = "rejected", !.body = body,
                                 !.answer = ControlValidation(body)]
     ELSE ctl' = [CtlIdle EXCEPT !.pc = "set_output", !.body = body,
                                 !.equipment_type = body.equipment_type,
                                 !.is_active = (body.is_active = "true")]
  /\ UNCHANGED <<gpio, faulty, client, shadow_client, subscribed, cb, prev, connected, app, shadow>>

\* get_equipment_status, app.py 97-105: 503 with no shadow controller,
\* otherwise get_equipment_states (shadow_device_controller.py 360-362) is
\* called.
StatusRequest ==
  /\ ctl.pc \in CtlDone
  /\ ctl' = IF ~app.shadow_controller
            THEN [CtlIdle EXCEPT !.pc = "rejected", !.answer = "503"]
            ELSE [CtlIdle EXCEPT !.pc = "status_read"]
  /\ UNCHANGED <<gpio, faulty, client, shadow_client, subscribed, cb, prev, connected, app, shadow>>

\* get_equipment_info (shadow_device_controller.py 364-366) is called on the
\* controller.
InfoCall ==
  /\ ctl.pc \in CtlDone
  /\ app.shadow_controller
  /\ ctl' = [CtlIdle EXCEPT !.pc = "info_read"]
  /\ UNCHANGED <<gpio, faulty, client, shadow_client, subscribed, cb, prev, connected, app, shadow>>

\* One turn of the loop of get_all_states or get_equipment_info
\* (equipment_controller.py 102-104, 125-131): get_state of the next kind,
\* one GPIO.input.  After the last kind the states are returned; an error of
\* GPIO.input leaves the loop (answered 500 at app.py 115-121).
ReadStates(at) ==
  /\ ctl.pc = at
  /\ LET n == Cardinality(DOMAIN ctl.readback) + 1
         k == KindOrder[n]
     IN  IF GpioRaises(gpio, k)
         THEN ctl' = [ctl EXCEPT !.pc = "raised", !.error = "RuntimeError",
                                 !.answer = "500"]
         ELSE ctl' = [ctl EXCEPT
                        !.readback = (k :> get_state(gpio, k)) @@ @,
                        !.pc = IF n = Len(KindOrder) THEN "answered" ELSE at,
                        !.answer = IF n = Len(KindOrder) THEN "200" ELSE "none"]
  /\ UNCHANGED <<gpio, faulty, client, shadow_client, subscribed, cb, prev, connected, app, shadow>>

StatusRead == ReadStates("status_read")

InfoRead == ReadStates("info_read")

\* health_check, app.py 78-90: the status is computed from the two globals
\* and returned.
HealthRequest ==
  /\ ctl.pc \in CtlDone
  /\ ctl' = [CtlIdle EXCEPT !.pc = "answered", !.answer = HealthStatus]
  /\ UNCHANGED <<gpio, faulty, client, shadow_client, subscribed, cb, prev, connected, app, shadow>>

\* _heartbeat_loop calls _publish_heartbeat (lines 323-327, 296-297) while
\* is_running is set; with no client the call returns at once.
HeartbeatBegin ==
  /\ app.is_running
  /\ app.hb = "idle"
  /\ app' = IF client = "none"
            THEN [app EXCEPT !.beat = "none"]
            ELSE [app EXCEPT !.hb = "read", !.hb_i = 1, !.hb_states = NoStates]
  /\ UNCHANGED <<gpio, faulty, client, shadow_client, subscribed, cb, ctl, prev, connected, shadow>>

\* Line 301: get_all_states, one GPIO.input per kind; an error is caught at
\* line 320.
HeartbeatRead ==
  /\ app.hb = "read"
  /\ LET k == KindOrder[app.hb_i]
         last == app.hb_i = Len(KindOrder)
     IN  IF GpioRaises(gpio, k)
         THEN app' = [app EXCEPT !.hb = "idle", !.hb_i = 0,
                                 !.hb_states = NoStates, !.beat = "failed"]
         ELSE app' = [app EXCEPT
                        !.hb_states = (k :> get_state(gpio, k)) @@ @,
                        !.hb_i = IF last THEN 0 ELSE app.hb_i + 1,
                        !.hb = IF last THEN "publish" ELSE "read"]
  /\ UNCHANGED <<gpio, faulty, client, shadow_client, subscribed, cb, ctl, prev, connected, shadow>>

\* Lines 303-318: the payload is published to devices/heartbeat and awaited
\* for ten seconds; a failure is logged at line 321.
HeartbeatPublish ==
  /\ app.hb = "publish"
  /\ \E acked \in Outcomes :
       app' = [app EXCEPT !.hb = "idle", !.hb_states = NoStates,
                          !.beat = IF acked THEN "acked" ELSE "failed"]
  /\ UNCHANGED <<gpio, faulty, client, shadow_client, subscribed, cb, ctl, prev, connected, shadow>>

\* ------------------------------------------------------------ specifications
\* Spec: the delta reconciler on the callback context and a control-path
\* caller running concurrently; delta events carry any document.
Next ==
  \/ Start
  \/ ConnectionSuccess
  \/ SubscribeDelta
  \/ SubscribeGetAccepted
  \/ SubscribeUpdateAccepted
  \/ SyncRead
  \/ SyncPublish
  \/ GetShadowDocument
  \/ \E b \in DeltaBatches : ShadowDeltaUpdated(b)
  \/ ProcessItem
  \/ ProcessSetRead
  \/ ProcessVerify
  \/ ProcessPublish
  \/ ProcessReturn
  \/ \E k \in Kinds, d \in BOOLEAN : ControlCall(k, d)
  \/ ControlSetOutput
  \/ ControlSetRead
  \/ ControlPublish
  \/ ControlReturn

Spec == Init /\ [][Next]_vars

\* SpecGet: the full-document path on the callback context; get-accepted
\* responses carry any desired and reported section.
NextGet ==
  \/ Start
  \/ ConnectionSuccess
  \/ SubscribeDelta
  \/ SubscribeGetAccepted
  \/ SubscribeUpdateAccepted
  \/ SyncRead
  \/ SyncPublish
  \/ GetShadowDocument
  \/ \E des \in Documents, rep \in ReportedDocs : GetShadowAccepted(des, rep)
  \/ GetAcceptedItem
  \/ GetAcceptedReturn
  \/ ProcessItem
  \/ ProcessSetRead
  \/ ProcessVerify
  \/ ProcessPublish
  \/ ProcessReturn

SpecGet == Init /\ [][NextGet]_vars

\* One-key deltas, as the service sends for a single changed kind.
SerialDeltas == {SingleKey(k, v) : k \in Kinds, v \in EntryValues}

\* Desired sections whose entries all carry the flag.
SerialDocs ==
  {d \in Documents : \A k \in Keys : d[k] \in {"on", "off", "absent"} /\ (k \notin Kinds => d[k] = "absent")}

\* SpecSerial: both paths on the callback context with no other writer of
\* the pins, each finished reconciliation remembered in prev.
NextSerial ==
  \/ Start
  \/ ConnectionSuccess
  \/ SubscribeDelta
  \/ SubscribeGetAccepted
  \/ SubscribeUpdateAccepted
  \/ SyncRead
  \/ SyncPublish
  \/ GetShadowDocument
  \/ \E b \in SerialDeltas : ShadowDeltaUpdated(b)
  \/ \E des \in SerialDocs, rep \in ReportedDocs : GetShadowAccepted(des, rep)
  \/ GetAcceptedItem
  \/ GetAcceptedReturn
  \/ ProcessItem
  \/ ProcessSetRead
  \/ ProcessVerify
  \/ ProcessPublish
  \/ ProcessReturnObserved

SpecSerial == Init /\ [][NextSerial]_vars

\* SpecApp: the REST front end: its start-up thread, the connection handler
\* on the callback context and a request thread serving control requests.
NextApp ==
  \/ CreateController
  \/ AppStart
  \/ StartFails
  \/ StartReturn
  \/ ConnectionSuccess
  \/ Disconnection
  \/ SubscribeDelta
  \/ SubscribeGetAccepted
  \/ SubscribeUpdateAccepted
  \/ SyncRead
  \/ SyncPublish
  \/ GetShadowDocument
  \/ ControlReject
  \/ \E k \in Kinds, d \in BOOLEAN : ControlRequest(k, d)
  \/ ControlSetOutput
  \/ ControlSetRead
  \/ ControlPublish
  \/ ControlReturn

SpecApp == Init /\ [][NextApp]_vars

\* SpecStop: the engine with its callers of update_equipment_state_and_shadow
\* passing any identifier, shut down while the connection handler, delta
\* events and control calls are in progress or still arrive.
NextStop ==
  \/ Start
  \/ ConnectionSuccess
  \/ SubscribeDelta
  \/ SubscribeGetAccepted
  \/ SubscribeUpdateAccepted
  \/ SyncRead
  \/ SyncPublish
  \/ GetShadowDocument
  \/ \E b \in SerialDeltas : ShadowDeltaUpdated(b)
  \/ ProcessItem
  \/ ProcessSetRead
  \/ ProcessVerify
  \/ ProcessPublish
  \/ ProcessReturn
  \/ \E k \in Keys, d \in BOOLEAN : ControlCall(k, d)
  \/ ControlSetOutput
  \/ ControlSetRead
  \/ ControlPublish
  \/ ControlReturn
  \/ ControlExcept
  \/ StopBegin
  \/ StopClient
  \/ CleanupOutput
  \/ CleanupRead
  \/ StopReturn

SpecStop == Init /\ [][NextStop]_vars

\* SpecRest: the REST front end serving control requests with any body,
\* status and health requests and a caller of get_equipment_info, with the
\* start-up thread, the connection handler and the heartbeat thread running.
NextRest ==
  \/ CreateController
  \/ AppStart
  \/ StartReturn
  \/ ConnectionSuccess
  \/ SubscribeDelta
  \/ SubscribeGetAccepted
  \/ SubscribeUpdateAccepted
  \/ SyncRead
  \/ SyncPublish
  \/ GetShadowDocument
  \/ \E body \in Bodies : ControlEquipment(body)
  \/ ControlSetOutput
  \/ ControlSetRead
  \/ ControlPublish
  \/ ControlReturn
  \/ StatusRequest
  \/ StatusRead
  \/ InfoCall
  \/ InfoRead
  \/ HealthRequest
  \/ HeartbeatBegin
  \/ HeartbeatRead
  \/ HeartbeatPublish

SpecRest == Init /\ [][NextRest]_vars

\* The steps of a handler running on the callback context.
CallbackStep ==
  \/ SubscribeDelta
  \/ SubscribeGetAccepted
  \/ SubscribeUpdateAccepted
  \/ SyncRead
  \/ SyncPublish
  \/ GetShadowDocument
  \/ GetAcceptedItem
  \/ GetAcceptedReturn
  \/ ProcessItem
  \/ ProcessSetRead
  \/ ProcessVerify
  \/ ProcessPublish
  \/ ProcessReturn

\* The steps of a call of update_equipment_state_and_shadow.
ControlStep ==
  \/ ControlSetOutput
  \/ ControlSetRead
  \/ ControlPublish
  \/ ControlReturn

\* The events of SpecLive: deltas for the blower, alone or with the
\* vibrofeeder; documents whose desired section holds the vibrofeeder, the
\* reported section holding it or not; control calls for the blower.
LiveDeltas ==
  {d \in DeltaBatches : d["pump"] = "absent" /\ d["vibrofeeder"] \in {"absent", "on"}}

LiveDocs == {SingleKey("vibrofeeder", v) : v \in {"on", "off"}}

LiveReported ==
  {r \in ReportedDocs : r["blower"] = "absent" /\ r["vibrofeeder"] # "off"}

LiveKinds == {"blower"}

\* SpecLive: connections, disconnections, delta events, get-accepted
\* responses and control calls.  A thread that has entered a handler keeps
\* running it: the steps of the callback context and of the control call are
\* weakly fair; events arrive or not.
NextLive ==
  \/ Start
  \/ ConnectionSuccess
  \/ Disconnection
  \/ \E b \in LiveDeltas : ShadowDeltaUpdated(b)
  \/ \E des \in LiveDocs, rep \in LiveReported : GetShadowAccepted(des, rep)
  \/ \E k \in LiveKinds, d \in BOOLEAN : ControlCall(k, d)
  \/ CallbackStep
  \/ ControlStep

SpecLive ==
  Init /\ [][NextLive]_vars /\ WF_vars(CallbackStep) /\ WF_vars(ControlStep)

\* The one connection of SpecShadow: it succeeds and stays up.
ConnectOnce ==
  /\ ~connected
  /\ ConnectionSuccess

\* The steps of a handler on the callback context, its requests followed in
\* shadow.
ShadowCallbackStep ==
  \/ SubscribeDelta
  \/ SubscribeGetAccepted
  \/ SubscribeUpdateAccepted
  \/ SyncRead
  \/ SyncPublishSent
  \/ GetShadowDocumentSent
  \/ GetAcceptedItem
  \/ GetAcceptedReturn
  \/ ProcessItem
  \/ ProcessSetRead
  \/ ProcessVerify
  \/ ProcessPublishSent
  \/ ProcessReturn

\* The transport delivers the message at the head of the inbox.
Delivery ==
  \/ DeltaDelivered
  \/ GetAcceptedDelivered

\* The steps of the control call, its publish followed in shadow.
ShadowControlStep ==
  \/ ControlSetOutput
  \/ ControlSetRead
  \/ ControlPublishSent
  \/ ControlReturn

\* SpecShadow: the engine together with the shadow service: the desired
\* section is changed while the device is offline and while it is connected,
\* the service sends delta and get-accepted messages, which are delivered in
\* order, and one control call runs beside the callback context.  The
\* desired entry changed and the kind of the control call are the blower's.
\* Threads keep running and waiting messages are delivered (weak fairness).
\* Every request of the device so far was acknowledged: no publish or get
\* request was lost and, past the subscription phase, the three topics are
\* subscribed.
Reliable ==
  /\ ~shadow.lost
  /\ (shadow_client /\ cb.pc \notin {"sub_delta", "sub_get", "sub_update"})
       => subscribed = {"delta", "get_accepted", "update_accepted"}

\* The engine is followed as long as its requests are acknowledged.
NextShadow ==
  \/ Reliable /\ Start
  \/ Reliable /\ ConnectOnce
  \/ Reliable /\ \E k \in LiveKinds, v \in {"on", "off", "absent"} : DesiredChange(k, v)
  \/ Reliable /\ \E k \in LiveKinds, d \in BOOLEAN : ControlCallOnce(k, d)
  \/ Reliable /\ ShadowCallbackStep
  \/ Reliable /\ Delivery
  \/ Reliable /\ ShadowControlStep

\* The hardware works: every output can be energized.
InitWorking == Init /\ faulty = {}

SpecShadow ==
  /\ InitWorking /\ [][NextShadow]_vars
  /\ WF_vars(Reliable /\ ShadowCallbackStep)
  /\ WF_vars(Reliable /\ Delivery)
  /\ WF_vars(Reliable /\ ShadowControlStep)

\* ------------------------------------------------------------ properties
\* The configured kinds a document holds an entry for.
ValidKeys(d) == {k \in Kinds : d[k] # "absent"}

HasInvalidKey(d) == \E k \in InvalidKeys : d[k] # "absent"

\* The callback context is inside _process_shadow_delta.
InProcess == cb.pc \in {"pd_loop", "pd_input", "pd_verify", "pd_publish", "pd_ret"}

\* C1: every reported-state value the delta reconciler or the control path
\* publishes for a kind is the value the same invocation last read back from
\* the hardware for that kind after it wrote that kind; nothing is published
\* for a kind the invocation has not written and read back.  The startup
\* synchronisation publishes what it read from the pins, all of them written
\* at set-up.
C1_PublishedIsReadBack ==
  /\ InProcess =>
       \A n \in 1..Len(cb.requests) :
         \A k \in DOMAIN cb.requests[n].states :
           /\ k \in cb.written
           /\ k \in DOMAIN cb.readback
           /\ cb.requests[n].states[k] = cb.readback[k]
  /\ ctl.publish \in {"acked", "failed"} =>
       /\ DOMAIN ctl.states = {ctl.equipment_type}
       /\ DOMAIN ctl.readback = {ctl.equipment_type}
       /\ ctl.states[ctl.equipment_type] = ctl.readback[ctl.equipment_type]
  /\ cb.pc = "get_doc" =>
       \A n \in 1..Len(cb.requests) : cb.requests[n].states = cb.current_states

\* A delta whose published value differs from the desired one: the
\* read-back, not the request, was published.
C1_Witness ==
  /\ cb.pc = "pd_ret"
  /\ cb.requests # <<>>
  /\ cb.mismatch # {}
  /\ ctl.publish = "acked"

\* C2: the write/read-back pair of the delta reconciler and that of the
\* control path never overlap on the same kind.
C2_NoInterleaving ==
  ~ /\ cb.pc \in {"pd_input", "pd_verify"}
    /\ ctl.pc = "set_input"
    /\ KeyOrder[cb.i] = ctl.equipment_type

\* C3: the value update_equipment_state_and_shadow returns is the value
\* get_state observes as the call returns.
C3_ReturnsObservedState ==
  [][(ctl.pc = "return" /\ ctl'.pc = "returned")
       => ctl'.result = get_state(gpio', ctl'.equipment_type)]_vars

\* C4: a delta batch holding a key outside the configuration together with
\* valid keys has every valid key written, and exactly one publish whose keys
\* are exactly the valid keys of the batch.
C4_ValidKeysApplied ==
  (cb.pc = "pd_ret" /\ cb.caller = "delta"
     /\ HasInvalidKey(cb.delta_state) /\ ValidKeys(cb.delta_state) # {})
  => /\ cb.written = ValidKeys(cb.delta_state)
     /\ Len(cb.requests) = 1
     /\ DOMAIN cb.requests[1].states = ValidKeys(cb.delta_state)

\* C5: when the read-back of a key differs from its desired value, the
\* reconciler does not fail: the key is published with the read-back value
\* and the remaining keys of the batch are processed.
C5_MismatchReported ==
  (cb.pc = "pd_ret" /\ cb.mismatch # {})
  => /\ ~cb.raised
     /\ cb.written = ValidKeys(cb.delta_state)
     /\ Len(cb.requests) = 1
     /\ \A k \in cb.mismatch :
          /\ k \in DOMAIN cb.requests[1].states
          /\ cb.requests[1].states[k] = cb.readback[k]

\* Position of a key in the iteration order.
Position(k) == CHOOSE n \in 1..Len(KeyOrder) : KeyOrder[n] = k

\* A document whose entries for the configured kinds are all objects.
WellFormed(d) == \A k \in Kinds : d[k] # "malformed"

\* The kinds of the desired section up to the first entry that is no object.
Examined(des) ==
  {k \in Kinds : \A m \in Kinds : Position(m) <= Position(k) => des[m] # "malformed"}

\* C6 as amended: on a get-accepted response, reconciliation is triggered for
\* kind k exactly when k is a valid kind of the desired section, examined
\* before the handler ends, whose active flag differs from the flag of the
\* reported section, a kind the reported section lacks counting as having no
\* flag; no other kind is written.
C6_TriggeredWhenFlagsDiffer ==
  cb.pc = "ga_ret" =>
    /\ cb.triggered =
         {k \in Examined(cb.desired) :
            /\ cb.desired[k] # "absent"
            /\ IsActiveOf(cb.desired[k]) # IsActiveOf(cb.doc_reported[k])}
    /\ \A n \in 1..Len(cb.cycles) : cb.cycles[n].written \subseteq cb.triggered

\* A kind the reported section lacks was handed to the reconciler.
C6_Witness ==
  /\ cb.pc = "ga_ret"
  /\ \E k \in cb.triggered : cb.doc_reported[k] = "absent"
  /\ \E n \in 1..Len(cb.cycles) : cb.cycles[n].written # {}

\* C6 as stated, on documents whose entries are all objects: reconciliation
\* is triggered for k if and only if k is in both the desired and the
\* reported section and the two flags differ.
C6_TriggeredOnlyWhenInBoth ==
  (cb.pc = "ga_ret" /\ WellFormed(cb.desired)) =>
    cb.triggered =
      {k \in Kinds :
         /\ cb.desired[k] # "absent"
         /\ cb.doc_reported[k] # "absent"
         /\ IsActiveOf(cb.desired[k]) # IsActiveOf(cb.doc_reported[k])}

\* The kinds of a document whose desired flag differs from the reported one.
Differing(des, rep) ==
  {k \in Kinds : des[k] # "absent" /\ IsActiveOf(des[k]) # IsActiveOf(rep[k])}

\* C7 as amended: a get-accepted response whose desired section differs from
\* the reported one for exactly one kind makes the handler run exactly one
\* reconciliation cycle: one set_state of that kind and one publish request,
\* carrying for that kind alone the value read back from the hardware.
C7_OneCyclePerResponse ==
  (cb.pc = "ga_ret" /\ WellFormed(cb.desired)
     /\ Cardinality(Differing(cb.desired, cb.doc_reported)) = 1)
  => \E k \in Differing(cb.desired, cb.doc_reported) :
       /\ Len(cb.cycles) = 1
       /\ cb.cycles[1].written = {k}
       /\ Len(cb.cycles[1].requests) = 1
       /\ cb.cycles[1].requests[1].states = (k :> cb.cycles[1].readback[k])

\* The startup example: desired on, reported off, one cycle run.
C7_Witness ==
  /\ cb.pc = "ga_ret"
  /\ cb.desired["blower"] = "on" /\ cb.doc_reported["blower"] = "off"
  /\ Cardinality(Differing(cb.desired, cb.doc_reported)) = 1
  /\ Len(cb.cycles) = 1
  /\ cb.cycles[1].requests # <<>>

\* C7 as stated: the cycle the full-document path runs for the one differing
\* kind is the only cycle for that kind since the connection, the live delta
\* path counted: no delta cycle for the same kind and desired value precedes
\* it.
C7_OneCycleOverBothPaths ==
  (cb.pc = "pd_ret" /\ cb.caller = "get"
     /\ Cardinality(Differing(cb.desired, cb.doc_reported)) = 1)
  => ~ /\ prev.path = "delta"
       /\ prev.kind \in cb.written
       /\ prev.value = cb.delta_state[prev.kind]

\* The current delta repeats the one just processed.
RepeatsPrevious ==
  /\ InProcess
  /\ cb.caller = "delta"
  /\ prev.path = "delta"
  /\ cb.delta_state = SingleKey(prev.kind, prev.value)

\* C8: processing the same one-key delta twice in a row leaves the
\* hardware, throughout the second application, as the first left it, and the
\* second publishes what the first published.
C8_Idempotent ==
  RepeatsPrevious =>
    /\ prev.kind \in Kinds => gpio[prev.kind] = prev.level
    /\ cb.pc = "pd_ret" =>
         [n \in 1..Len(cb.requests) |-> cb.requests[n].states] = prev.states

\* The same delta processed a second time, and published both times.
C8_Witness ==
  /\ RepeatsPrevious
  /\ cb.pc = "pd_ret"
  /\ prev.value = "on"
  /\ prev.states # <<>>
  /\ cb.requests # <<>>

\* C9: an invocation of the delta reconciler issues at most one publish
\* request, failed or not; the request comes after every valid key of the
\* batch has been written and read back, and covers exactly these keys; a
\* batch with no valid key causes no publish and no hardware write.
C9_AtMostOnePublish ==
  InProcess =>
    /\ Len(cb.requests) <= 1
    /\ cb.requests # <<>> =>
         /\ DOMAIN cb.requests[1].states = ValidKeys(cb.delta_state)
         /\ cb.written = ValidKeys(cb.delta_state)
         /\ DOMAIN cb.readback = ValidKeys(cb.delta_state)
    /\ (cb.pc = "pd_ret" /\ ValidKeys(cb.delta_state) = {}) =>
         /\ cb.requests = <<>>
         /\ cb.written = {}

\* A two-key batch whose single publish failed and was not repeated.
C9_Witness ==
  /\ cb.pc = "pd_ret"
  /\ Cardinality(ValidKeys(cb.delta_state)) = 2
  /\ Len(cb.requests) = 1
  /\ ~cb.requests[1].acked

\* C10: update_equipment_state_and_shadow returns, for a valid kind, the
\* value read back from the hardware after its write, whether the publish was
\* acknowledged, failed or could not be attempted for want of a shadow client.
C10_ReturnsVerifiedState ==
  ctl.pc = "returned" =>
    /\ ctl.publish \in {"acked", "failed", "no_client"}
    /\ ctl.result = ctl.readback[ctl.equipment_type]

\* A call made before any connection, on an output that cannot be
\* energized: the read-back, not the request, is returned.
C10_Witness ==
  /\ ctl.pc = "returned"
  /\ ctl.publish = "no_client"
  /\ ctl.is_active
  /\ ~ctl.result

\* C11: the readiness indicator (startup_complete, health status
\* "healthy") is true only after the startup synchronisation has run, and so
\* never while no connection has ever succeeded (shadow_client, set by the
\* first connection success and never cleared, is still None).
C11_ReadyOnlyAfterSync ==
  (app.startup_complete \/ HealthStatus = "healthy") => shadow_client

\* C12: a control request made while the engine is not ready (no connection
\* has succeeded, or the link is down) performs no hardware write.
C12_NoWriteWhenNotReady ==
  ctl.pc = "set_input" => (shadow_client /\ connected)

\* C13: on every connection success the three subscribe requests have been
\* attempted before the startup synchronisation begins: the synchronisation
\* is entered only when the third request, update-accepted, has resolved.
C13_SubscribedBeforeSync ==
  [][(cb'.pc = "sync_read" /\ cb.pc # "sync_read") => cb.pc = "sub_update"]_vars

\* C14: once stop() has returned every output is off (no pin is driven
\* LOW), and so it stays, whatever handler or control call was in progress
\* or begins afterwards.
C14_OffAfterStop ==
  app.stop = "done" => \A k \in Kinds : ~get_state(gpio, k)

\* A control call that energized a working output is still in progress when
\* stop() has returned, and a delta that arrived afterwards has failed on
\* the released pins.
C14_Witness ==
  /\ app.stop = "done"
  /\ ctl.pc = "set_input" /\ ctl.is_active /\ ctl.equipment_type \notin faulty
  /\ cb.pc = "pd_ret" /\ cb.raised /\ cb.written = {}

\* C15: every transport request resolves, by acknowledgment or by a failure
\* at its deadline, so every handler invocation returns: the callback context
\* is idle again and again, and every control call ends.
C15_HandlersReturn ==
  /\ []<>(cb.pc = "idle")
  /\ []<>(ctl.pc \in CtlDone)

\* With the link down, the startup publish awaited inside the connection
\* callback has ended at its deadline and the handler has gone on; a control
\* call's publish has failed too and the call has returned.
C15_Witness ==
  /\ ~connected
  /\ cb.pc = "get_doc"
  /\ ~cb.requests[1].acked
  /\ ctl.pc = "returned"
  /\ ctl.publish = "failed"

\* C16: update_equipment_state_and_shadow called with an identifier outside
\* the configuration ends in the ValueError of set_state and get_state: the
\* call writes no output, publishes nothing and returns no value.
C16_UnknownKindRejected ==
  /\ [](ctl.equipment_type \in InvalidKeys =>
          /\ ctl.pc \in {"set_output", "except", "raised"}
          /\ ctl.pc \in {"except", "raised"} => ctl.error = "ValueError"
          /\ ctl.publish = "none"
          /\ ctl.states = NoStates
          /\ ctl.readback = NoStates)
  /\ [][(ctl.equipment_type \in InvalidKeys /\ ctl' # ctl) => gpio' = gpio]_vars

\* A call for "pump" has ended in the error while an output was on: the
\* output is still on.
C16_Witness ==
  /\ ctl.pc = "raised"
  /\ ctl.equipment_type = "pump"
  /\ ctl.error = "ValueError"
  /\ \E k \in Kinds : get_state(gpio, k)

\* The configured kinds whose entry in the document is an object.
ObjectKeys(d) == {k \in Kinds : d[k] \in {"on", "off", "noflag"}}

\* C17: a key of a delta batch that fails (its value is no object) is the
\* only key left out: every sibling valid key is written, read back and
\* included in the one publish of the batch.
C17_FailureExcludesOneKey ==
  (cb.pc = "pd_ret" /\ cb.caller = "delta"
     /\ ObjectKeys(cb.delta_state) # ValidKeys(cb.delta_state)
     /\ ObjectKeys(cb.delta_state) # {})
  => /\ cb.written = ObjectKeys(cb.delta_state)
     /\ Len(cb.requests) = 1
     /\ DOMAIN cb.requests[1].states = ObjectKeys(cb.delta_state)

\* C18: on every connection success all three subscribe requests are
\* issued: whatever the outcome of the delta request the get-accepted request
\* follows it, and whatever the outcome of that one the update-accepted
\* request follows.
C18_AllSubscribesIssued ==
  [][/\ (cb.pc = "sub_delta" /\ cb'.pc # cb.pc) => cb'.pc = "sub_get"
     /\ (cb.pc = "sub_get" /\ cb'.pc # cb.pc) => cb'.pc = "sub_update"]_vars

\* The three shadow topics subscribed to.
Topics == {"delta", "get_accepted", "update_accepted"}

\* C19: a subscribe request that fails or times out does not end the
\* connection handler: the next request or the startup synchronisation
\* follows, the synchronisation publishes the hardware states and issues the
\* get request, and a control call made on the engine returns.
C19_SubscribeFailureNotFatal ==
  /\ [][(cb.pc \in {"sub_delta", "sub_get", "sub_update"} /\ cb'.pc # cb.pc)
         => cb'.pc \in {"sub_get", "sub_update", "sync_read"}]_vars
  /\ (cb.pc \in {"sub_delta", "sub_get", "sub_update"})
       ~> (cb.pc = "get_doc" /\ Len(cb.requests) = 1
             /\ DOMAIN cb.requests[1].states = Kinds)
  /\ (cb.pc = "get_doc") ~> (cb.pc = "idle")
  /\ (ctl.pc = "set_output" /\ subscribed # Topics) ~> (ctl.pc = "returned")

\* No subscription was established on this connection; the startup publish
\* has been made and the get request is next, and a control call has
\* returned.
C19_Witness ==
  /\ cb.pc = "get_doc"
  /\ subscribed = {}
  /\ Len(cb.requests) = 1
  /\ ctl.pc = "returned"

\* The positions of _sync_shadow_with_hardware.
SyncPcs == {"sync_read", "sync_publish", "get_doc"}

\* C20: the startup synchronisation runs once for each connection success,
\* after its subscription phase, in a fixed order: it reads every kind,
\* publishes one request holding what it read for both kinds, and then issues
\* the get request, also when the publish has failed; it writes no output.
C20_SyncOnceInOrder ==
  /\ [](cb.pc \in {"sync_read", "sync_publish"} => cb.requests = <<>>)
  /\ [](cb.pc = "sync_publish" => DOMAIN cb.current_states = Kinds)
  /\ [](cb.pc = "get_doc" =>
          /\ Len(cb.requests) = 1
          /\ cb.requests[1].states = cb.current_states
          /\ DOMAIN cb.requests[1].states = Kinds)
  /\ [][/\ (cb'.pc = "sync_read" /\ cb.pc # "sync_read")
            => cb.pc \in {"sub_delta", "sub_get", "sub_update"}
        /\ (cb.pc = "sync_publish" /\ cb'.pc # cb.pc) => cb'.pc = "get_doc"
        /\ (cb.pc = "get_doc" /\ cb'.pc # cb.pc) => cb'.pc = "idle"
        /\ (cb.pc \in SyncPcs /\ cb' # cb) => gpio' = gpio]_vars
  /\ (cb.pc = "sub_delta") ~> (cb.pc = "get_doc")
  /\ (cb.pc = "get_doc") ~> (cb.pc = "idle" /\ cb.requests = <<>>)

\* On a reconnection with the blower on, the startup publish has reported
\* it, has failed, and the get request is next.
C20_Witness ==
  /\ cb.pc = "get_doc"
  /\ connected
  /\ ~cb.requests[1].acked
  /\ cb.requests[1].states["blower"]

\* C21: a reported-state publish that fails leaves the hardware as the
\* preceding write left it: the publish step itself changes no pin, and after
\* a failed publish the delta reconciler and the control call only return,
\* with no further write of any output.
C21_NoRollback ==
  /\ []((InProcess /\ cb.requests # <<>>) => cb.pc = "pd_ret")
  /\ [](ctl.publish = "failed" => ctl.pc \in {"return", "returned"})
  /\ [][(cb.pc \in {"pd_publish", "pd_ret"} /\ cb' # cb) => gpio' = gpio]_vars
  /\ [][(ctl.pc \in {"publish", "return"} /\ ctl' # ctl) => gpio' = gpio]_vars

\* The publish of a control call that turned a working output on has failed
\* and the call has returned; the publish of a delta has failed too; the
\* output is still on.
C21_Witness ==
  /\ ctl.pc = "returned"
  /\ ctl.publish = "failed"
  /\ ctl.is_active
  /\ get_state(gpio, ctl.equipment_type)
  /\ cb.pc = "pd_ret"
  /\ cb.requests # <<>>
  /\ ~cb.requests[1].acked
  /\ \E k \in cb.written : get_state(gpio, k)

\* C22: a disconnect event marks the engine not ready: at the step on which
\* the link is lost the readiness indicator becomes false (startup_complete
\* cleared, health status no longer "healthy").
C22_DisconnectMarksNotReady ==
  [][(connected /\ ~connected')
       => (~app'.startup_complete /\ HealthStatus' # "healthy")]_vars

\* The shutdown has begun: stop() has been entered.
ShutdownBegun == app.stop # "none"

\* C23: shutdown never interrupts the write-then-verify pair of a delta in
\* progress: cleanup forces an output off only when the callback context is
\* not between a write and its read-back, and once stop() has been entered
\* no delta handler and no control-path write begins.
C23_ShutdownWaitsForInFlight ==
  [][/\ (app.stop = "cleanup_output" /\ app'.stop = "cleanup_input")
          => cb.pc \notin {"pd_input", "pd_verify"}
     /\ (ShutdownBegun /\ cb.pc = "idle") => cb'.pc # "pd_loop"
     /\ (ShutdownBegun /\ ctl.pc = "set_output") => ctl'.pc # "set_input"]_vars

\* The configured kinds whose entry in the document is an object without
\* the active flag.
NoFlagKeys(d) == {k \in Kinds : d[k] = "noflag"}

\* C24: a delta entry for a valid kind that has no active flag is treated as
\* desired = false: the reconciler's write of that kind drives it off, and
\* when the reconciler returns the kind has been written and the one publish
\* of the batch reports the value read back for it.
C24_NoFlagMeansOff ==
  /\ [][(cb.pc = "pd_loop" /\ cb'.pc = "pd_input"
           /\ cb.delta_state[KeyOrder[cb.i]] = "noflag")
          => (~cb'.desired_active /\ gpio'[KeyOrder[cb.i]] = "HIGH")]_vars
  /\ []((cb.pc = "pd_ret" /\ cb.caller = "delta") =>
          \A k \in NoFlagKeys(cb.delta_state) :
            /\ k \in cb.written
            /\ Len(cb.requests) = 1
            /\ k \in DOMAIN cb.requests[1].states
            /\ cb.requests[1].states[k] = cb.readback[k])

\* C27: when the delta reconciler returns, every kind whose output it has
\* written is held by a publish request it has issued.
C27_WrittenIsPublished ==
  cb.pc = "pd_ret" =>
    \A k \in cb.written :
      \E n \in 1..Len(cb.requests) : k \in DOMAIN cb.requests[n].states

\* What get_all_states reports when every kind is inactive.
AllInactive == [k \in Kinds |-> FALSE]

\* C29: when the EquipmentController has been constructed get_all_states
\* reports every kind inactive, and it goes on doing so until a set_state
\* with active = true writes an output: no other step turns an output on.
C29_OffUntilFirstActivation ==
  /\ [][(app.init = "none" /\ app'.init = "created")
          => get_all_states(gpio') = AllInactive]_vars
  /\ [][(get_all_states(gpio) = AllInactive /\ get_all_states(gpio') # AllInactive)
          => (ctl.pc = "set_output" /\ ctl.is_active /\ ctl'.pc = "set_input")]_vars

\* The controller has been constructed, a set_state with active = false has
\* run to its return, and both kinds are still reported inactive.
C29_Witness ==
  /\ app.init # "none"
  /\ ctl.pc = "returned"
  /\ ~ctl.is_active
  /\ get_all_states(gpio) = AllInactive

\* The positions of a call of update_equipment_state_and_shadow.
ControlPcs == {"set_output", "set_input", "publish", "return", "returned", "except"}

\* A request body the front end must not act on: no JSON object, or one
\* lacking equipment_type or is_active, or naming no configured kind.
BadBody(b) ==
  \/ b.json # "object"
  \/ b.equipment_type = "absent"
  \/ b.is_active = "absent"
  \/ b.equipment_type \notin Kinds

\* C28: a control request is rejected with no hardware write and no publish
\* when there is no shadow controller (503) and when its body is missing,
\* lacks equipment_type or is_active, or names no configured kind (400):
\* update_equipment_state_and_shadow is entered only with a controller and a
\* complete body for a configured kind; status, information and health
\* requests change no output.
C28_RejectedWithoutEffect ==
  /\ [](ctl.pc \in ControlPcs => (app.shadow_controller /\ ~BadBody(ctl.body)))
  /\ [](ctl.pc = "rejected" =>
          /\ ctl.answer \in {"503", "400", "500"}
          /\ ctl.publish = "none"
          /\ ctl.states = NoStates
          /\ ctl.readback = NoStates)
  /\ [][(ctl'.pc = "rejected" /\ ctl' # ctl) =>
          /\ gpio' = gpio
          /\ ~app.shadow_controller => ctl'.answer = "503"
          /\ (app.shadow_controller /\ ctl'.body.json # "invalid")
               => ctl'.answer = "400"]_vars
  /\ [][((ctl.pc \in {"status_read", "info_read"} \/ ctl'.pc = "answered")
           /\ ctl' # ctl) => gpio' = gpio]_vars

\* A request for a kind outside the configuration has been answered 400
\* while an output was on: the output is still on.
C28_Witness ==
  /\ ctl.pc = "rejected"
  /\ ctl.answer = "400"
  /\ ctl.body.equipment_type = "pump"
  /\ ctl.body.is_active = "false"
  /\ \E k \in Kinds : get_state(gpio, k)

\* C30: set_state(k, v) changes only the output of kind k: a step that
\* changes a pin is the GPIO.output of a set_state in progress and leaves
\* every other kind's pin as it was; the reads of get_state, get_all_states
\* and get_equipment_info and the steps of the heartbeat change no pin.
C30_SetStateFrame ==
  /\ [][gpio' # gpio =>
          /\ ctl.pc = "set_output" /\ ctl'.pc = "set_input"
          /\ \A j \in Kinds \ {ctl.equipment_type} : gpio'[j] = gpio[j]]_vars
  /\ [][((ctl.pc \in {"set_input", "status_read", "info_read"}
            \/ ctl'.pc = "answered") /\ ctl' # ctl) => gpio' = gpio]_vars
  /\ [][app'.hb # app.hb => gpio' = gpio]_vars

\* With the blower switched on by a set_state, a heartbeat has been
\* published and a status request answered: the blower is read on and the
\* vibrofeeder off.
C30_Witness ==
  /\ app.beat = "acked"
  /\ ctl.pc = "answered"
  /\ ctl.answer = "200"
  /\ ctl.readback = [k \in Kinds |-> k = "blower"]
  /\ get_all_states(gpio) = [k \in Kinds |-> k = "blower"]

\* Nothing is in progress: no handler runs, no control call, no message
\* waits, and every request so far was acknowledged.
Quiescent ==
  /\ Reliable
  /\ cb.pc = "idle"
  /\ ctl.pc \in CtlDone
  /\ shadow.inbox = <<>>

\* C26: when nothing is in progress and every publish was acknowledged, the
\* value the shadow last received for each kind is the current state of that
\* kind's output.
C26_ReportedIsCurrent ==
  Quiescent =>
    \A k \in Kinds :
      shadow.reported[k] # "absent" =>
        shadow.reported[k] = ReportedEntry(get_state(gpio, k))

\* Every kind with a desired entry is in the desired state, on the hardware
\* and in the reported section.
Converged ==
  \A k \in Kinds :
    shadow.desired[k] # "absent" =>
      /\ get_state(gpio, k) = DesiredActive(shadow.desired[k])
      /\ shadow.reported[k] = shadow.desired[k]

\* C25: with working hardware, a connection that stays up, every request
\* acknowledged and a desired section that stops changing, the hardware and
\* the reported section eventually equal the desired section for good,
\* whether the desired entry was changed before the connection or after it.
C25_Convergence ==
  ([]Reliable /\ <>connected) => <>[]Converged

=============================================================================
